---- MODULE Spec2Model ----
(***************************************************************************)
(* Notary management backend: the case / appointment workflow handlers of  *)
(* backend/main.py over the document store, with the audit trail.          *)
(*                                                                         *)
(* Every request is served by a worker (FastAPI runs the synchronous       *)
(* handlers in a thread pool), so handlers interleave at their store       *)
(* accesses.  One action of the model is one store access of a handler     *)
(* together with the local computation that precedes it (dependency        *)
(* resolution, validation, early returns) or follows it (the return).      *)
(***************************************************************************)
EXTENDS Integers, Sequences, FiniteSets, TLC

\* ---------------------------------------------------------------- bounds
\* Workers serving requests concurrently.
NumProcs == 2
\* Booking requests issued in one behaviour of BookSpec.
MaxBookReq == 2
\* Requests issued in one behaviour of CaseSpec.
MaxCaseReq == 3
\* Instants of the calendar: 0..MaxTime.
MaxTime == 3

Procs == 1..NumProcs
Times == 0..MaxTime

\* ------------------------------------------------------------ identifiers
\* An ObjectId string is modelled by a positive integer, the empty string by
\* EmptyId and a string that is no ObjectId by BadId.
EmptyId == 0
BadId == -1

\* oid(id_str): the ObjectId, or HTTP 400 when the string is not one.
oid_ok(id_str) == id_str >= 1

\* ------------------------------------------------------------------ roles
NoHeader == "absent"

\* A default that makes a caller without the header an assistant.
get_role_default_assistant(x_role) == IF x_role = NoHeader THEN "assistant" ELSE x_role

\* get_role: the X-Role header, 'client' when absent.
get_role(x_role) == IF x_role = NoHeader THEN "client" ELSE x_role

\* The role set of the gated endpoints.
Staff == {"notary", "assistant"}

\* require_role(allowed): the checker passes iff the role is allowed.
require_role(x_role, allowed) == get_role(x_role) \in allowed

\* ---------------------------------------------------------------- schemas
\* schemas.CaseStatus
CaseStatus == {"New", "Draft", "Waiting Signature", "Completed", "Archived"}

\* schemas.Appointment.status
AppointmentStatus == {"Scheduled", "Completed", "Cancelled"}

\* ------------------------------------------------------------------ state
VARIABLES
    db_client,       \* db["client"]: set of records
    db_case,         \* db["case"]
    db_appointment,  \* db["appointment"]
    db_auditlog,     \* db["auditlog"], in insertion order
    nextId,          \* the store's next fresh ObjectId
    now,             \* datetime.utcnow(), a logical clock
    pc,              \* per worker: where its handler stands
    req,             \* per worker: the request it serves
    new_id,          \* per worker: the handler's local new_id
    started,         \* per worker: responses already sent when its request arrived
    responses,       \* the HTTP responses sent, in order
    db_document,     \* db["document"]
    db_payment,      \* db["payment"]
    sessions,        \* the checkout sessions the payment gateway holds
    STRIPE_SECRET,   \* the gateway key read at import: "unread", then "set" or "unset"
    locals           \* per worker: the other local variables of its handler

store == <<db_client, db_case, db_appointment, db_auditlog, db_document, db_payment>>
extras == <<db_document, db_payment, sessions, STRIPE_SECRET, locals>>
vars == <<db_client, db_case, db_appointment, db_auditlog, nextId, now,
          pc, req, new_id, started, responses,
          db_document, db_payment, sessions, STRIPE_SECRET, locals>>

NoReq == [op |-> "none"]
NoLocals == [none |-> TRUE]

Init ==
    /\ db_client = {}
    /\ db_case = {}
    /\ db_appointment = {}
    /\ db_auditlog = <<>>
    /\ nextId = 1
    /\ now = 1
    /\ pc = [p \in Procs |-> "idle"]
    /\ req = [p \in Procs |-> NoReq]
    /\ new_id = [p \in Procs |-> EmptyId]
    /\ started = [p \in Procs |-> 0]
    /\ responses = <<>>
    /\ db_document = {}
    /\ db_payment = {}
    /\ sessions = {}
    /\ STRIPE_SECRET = "unread"
    /\ locals = [p \in Procs |-> NoLocals]

\* ---------------------------------------------------------- request flow
InFlight == {p \in Procs : pc[p] # "idle"}
Issued == Len(responses) + Cardinality(InFlight)

\* A request arrives at a free worker.
Arrives(p) == pc[p] = "idle"

\* The handler returns or raises: the response is sent and the worker is free.
Respond(p, r, since, code, id) ==
    /\ responses' = Append(responses,
                           [req |-> r, code |-> code, id |-> id, started |-> since])
    /\ pc' = [pc EXCEPT ![p] = "idle"]
    /\ req' = [req EXCEPT ![p] = NoReq]
    /\ new_id' = [new_id EXCEPT ![p] = EmptyId]
    /\ started' = [started EXCEPT ![p] = 0]

\* The handler goes on to its next store access.
Goto(p, r, label, id) ==
    /\ pc' = [pc EXCEPT ![p] = label]
    /\ req' = [req EXCEPT ![p] = r]
    /\ new_id' = [new_id EXCEPT ![p] = id]
    /\ started' = [started EXCEPT ![p] = IF pc[p] = "idle" THEN Len(responses) ELSE @]
    /\ UNCHANGED responses

\* ------------------------------------------------------------- the store
\* datetime.utcnow(): every stamped write reads a later instant.
Tick == now' = now + 1

\* create_document(collection, data): inserts the record, stamped, under a
\* fresh id, which it returns.
create_document(coll, data, id, ts) ==
    coll \cup {data @@ [_id |-> id, created_at |-> ts, updated_at |-> ts]}

NoDetails == "None"

\* AuditLog(actor_role, action, entity, entity_id, details)
AuditLog(actor_role, action, entity, entity_id, details) ==
    [actor_role |-> actor_role, action |-> action, entity |-> entity,
     entity_id |-> entity_id, details |-> details]

\* create_document("auditlog", record)
audit(record) ==
    /\ db_auditlog' = Append(db_auditlog, record @@ [created_at |-> now])
    /\ Tick

\* ------------------------------------------------- POST /appointments/public
\* A request: [op |-> "book", payload |-> Appointment].
BookRequest(start_time, end_time, status) ==
    [op |-> "book",
     payload |-> [start_time |-> start_time, end_time |-> end_time, status |-> status]]

\* A conflict query that only asks whether the new start falls into a stored
\* slot.
ConflictFilter_start_only(a, payload) ==
    /\ a.start_time <= payload.start_time
    /\ a.end_time > payload.start_time

\* A conflict query over closed intervals.
ConflictFilter_closed(a, payload) ==
    /\ a.start_time <= payload.end_time
    /\ a.end_time >= payload.start_time

\* The filter of the conflict query: start_time < payload.end_time and
\* end_time > payload.start_time.
ConflictFilter(a, payload) ==
    /\ a.start_time < payload.end_time
    /\ a.end_time > payload.start_time

\* db["appointment"].find_one(filter) finds a record.
conflict(payload) == \E a \in db_appointment : ConflictFilter(a, payload)

\* A range check that lets a zero-duration interval through.
InvalidTimeRange_strict(payload) == payload.end_time < payload.start_time

\* payload.end_time <= payload.start_time
InvalidTimeRange(payload) == payload.end_time <= payload.start_time

\* Lines 145-153: the range check, then the conflict query.
public_create_appointment(p, r) ==
    /\ Arrives(p)
    /\ r.op = "book"
    /\ IF InvalidTimeRange(r.payload)
         THEN Respond(p, r, Len(responses), 400, EmptyId)
         ELSE IF conflict(r.payload)
                THEN Respond(p, r, Len(responses), 409, EmptyId)
                ELSE Goto(p, r, "book_insert", EmptyId)
    /\ UNCHANGED <<store, nextId, now>>
    /\ UNCHANGED extras

\* Line 154: new_id = create_document("appointment", payload).
public_create_appointment_insert(p) ==
    /\ pc[p] = "book_insert"
    /\ db_appointment' = create_document(db_appointment, req[p].payload, nextId, now)
    /\ nextId' = nextId + 1
    /\ Tick
    /\ Goto(p, req[p], "book_audit", nextId)
    /\ UNCHANGED <<db_client, db_case, db_auditlog>>
    /\ UNCHANGED extras

\* Lines 155-156: the audit record, then the response.
public_create_appointment_audit(p) ==
    /\ pc[p] = "book_audit"
    /\ audit(AuditLog("client", "book", "appointment", new_id[p], NoDetails))
    /\ Respond(p, req[p], started[p], 200, new_id[p])
    /\ UNCHANGED <<db_client, db_case, db_appointment, nextId>>
    /\ UNCHANGED extras

\* The bodies the booking widget sends: every status with every valid
\* range, and every invalid range.
BookRequests ==
    {r \in {BookRequest(t, e, st) : t \in Times, e \in Times, st \in AppointmentStatus} :
        InvalidTimeRange(r.payload) => r.payload.status = "Scheduled"}

BookNext ==
    \E p \in Procs :
        \/ Issued < MaxBookReq /\ \E r \in BookRequests : public_create_appointment(p, r)
        \/ public_create_appointment_insert(p)
        \/ public_create_appointment_audit(p)

\* Concurrent bookings only.
BookSpec == Init /\ [][BookNext]_vars

\* ------------------------------------------------------------ POST /clients
\* A request: [op |-> "create_client", x_role, payload |-> Client].
ClientRequest(x_role) ==
    [op |-> "create_client", x_role |-> x_role, payload |-> [first_name |-> "A"]]

\* Lines 88-90: the role check, then new_id = create_document("client", payload).
create_client(p, r) ==
    /\ Arrives(p)
    /\ r.op = "create_client"
    /\ IF ~require_role(r.x_role, Staff)
         THEN /\ Respond(p, r, Len(responses), 403, EmptyId)
              /\ UNCHANGED <<store, nextId, now>>
         ELSE /\ db_client' = create_document(db_client, r.payload, nextId, now)
              /\ nextId' = nextId + 1
              /\ Tick
              /\ Goto(p, r, "client_audit", nextId)
              /\ UNCHANGED <<db_case, db_appointment, db_auditlog>>
    /\ UNCHANGED extras

\* Lines 91-92: the audit record, then the response.
create_client_audit(p) ==
    /\ pc[p] = "client_audit"
    /\ audit(AuditLog("assistant", "create", "client", new_id[p], NoDetails))
    /\ Respond(p, req[p], started[p], 200, new_id[p])
    /\ UNCHANGED <<db_client, db_case, db_appointment, nextId>>
    /\ UNCHANGED extras

\* -------------------------------------------------------------- POST /cases
\* A request: [op |-> "create_case", x_role, payload |-> Case].
CaseRequest(x_role, client_id, status) ==
    [op |-> "create_case", x_role |-> x_role,
     payload |-> [client_id |-> client_id, status |-> status]]

\* A lookup of the id in the wrong collections as well.
client_found_any_record(client_id) ==
    \E c \in db_client \cup db_case : c._id = client_id

\* db["client"].find_one({"_id": oid(client_id)}) finds a record.
client_found(client_id) == \E c \in db_client : c._id = client_id

\* Lines 110-115: the role check, then the client lookup when client_id is
\* not empty.
create_case(p, r) ==
    /\ Arrives(p)
    /\ r.op = "create_case"
    /\ IF ~require_role(r.x_role, Staff)
         THEN Respond(p, r, Len(responses), 403, EmptyId)
         ELSE IF r.payload.client_id # EmptyId /\ ~oid_ok(r.payload.client_id)
                THEN Respond(p, r, Len(responses), 400, EmptyId)
                ELSE IF r.payload.client_id # EmptyId /\ ~client_found(r.payload.client_id)
                       THEN Respond(p, r, Len(responses), 404, EmptyId)
                       ELSE Goto(p, r, "case_insert", EmptyId)
    /\ UNCHANGED <<store, nextId, now>>
    /\ UNCHANGED extras

\* Line 116: new_id = create_document("case", payload).
create_case_insert(p) ==
    /\ pc[p] = "case_insert"
    /\ db_case' = create_document(db_case, req[p].payload, nextId, now)
    /\ nextId' = nextId + 1
    /\ Tick
    /\ Goto(p, req[p], "case_audit", nextId)
    /\ UNCHANGED <<db_client, db_appointment, db_auditlog>>
    /\ UNCHANGED extras

\* Lines 117-118: the audit record, then the response.
create_case_audit(p) ==
    /\ pc[p] = "case_audit"
    /\ audit(AuditLog("assistant", "create", "case", new_id[p], NoDetails))
    /\ Respond(p, req[p], started[p], 200, new_id[p])
    /\ UNCHANGED <<db_client, db_case, db_appointment, nextId>>
    /\ UNCHANGED extras

\* ------------------------------------------------ PATCH /cases/{id}/status
\* A request: [op |-> "update_status", x_role, case_id, status].
StatusRequest(x_role, case_id, status) ==
    [op |-> "update_status", x_role |-> x_role, case_id |-> case_id, status |-> status]

\* A list that lets no case reach Completed or Archived.
allowed_open_only == {"New", "Draft", "Waiting Signature"}

\* Line 132: allowed.
allowed == {"New", "Draft", "Waiting Signature", "Completed", "Archived"}

\* An enum check that only refuses the empty status.
status_allowed_nonempty(status) == status # ""

\* Line 133: status in allowed.
status_allowed(status) == status \in allowed

\* An update that reports a match for every id.
matched_whatever_id(case_id) == TRUE

\* update_one's filter {"_id": oid(case_id)} matches a record.
matched(case_id) == \E c \in db_case : c._id = case_id

\* A $set that stamps the record and leaves its status.
set_status_stamp_only(coll, case_id, status, ts) ==
    {IF c._id = case_id THEN [updated_at |-> ts] @@ c ELSE c : c \in coll}

\* update_one's {"$set": {"status": status, "updated_at": utcnow()}}.
set_status(coll, case_id, status, ts) ==
    {IF c._id = case_id THEN [status |-> status, updated_at |-> ts] @@ c ELSE c :
        c \in coll}

\* Lines 130-137: the role check, the enum check, then update_one.
update_case_status(p, r) ==
    /\ Arrives(p)
    /\ r.op = "update_status"
    /\ IF ~require_role(r.x_role, Staff)
         THEN /\ Respond(p, r, Len(responses), 403, EmptyId)
              /\ UNCHANGED <<store, now>>
         ELSE IF ~status_allowed(r.status)
                THEN /\ Respond(p, r, Len(responses), 400, EmptyId)
                     /\ UNCHANGED <<store, now>>
                ELSE IF ~oid_ok(r.case_id)
                       THEN /\ Respond(p, r, Len(responses), 400, EmptyId)
                            /\ UNCHANGED <<store, now>>
                       ELSE IF ~matched(r.case_id)
                              THEN /\ Respond(p, r, Len(responses), 404, EmptyId)
                                   /\ UNCHANGED <<store, now>>
                              ELSE /\ db_case' = set_status(db_case, r.case_id, r.status, now)
                                   /\ Tick
                                   /\ Goto(p, r, "status_audit", EmptyId)
                                   /\ UNCHANGED <<db_client, db_appointment, db_auditlog>>
    /\ UNCHANGED nextId
    /\ UNCHANGED extras

\* Lines 138-139: the audit record, then the response.
update_case_status_audit(p) ==
    /\ pc[p] = "status_audit"
    /\ audit(AuditLog("assistant", "update_status", "case", req[p].case_id,
                      req[p].status))
    /\ Respond(p, req[p], started[p], 200, EmptyId)
    /\ UNCHANGED <<db_client, db_case, db_appointment, nextId>>
    /\ UNCHANGED extras

\* The requests of the case workflow: staff requests over the ids a short
\* behaviour allocates, and one request per endpoint without the role header.
CaseRequests ==
    {ClientRequest(h) : h \in {"assistant", NoHeader}}
    \cup {CaseRequest("assistant", c, st) : c \in {EmptyId, BadId, 1}, st \in {"New", "Completed"}}
    \cup {CaseRequest(NoHeader, EmptyId, "New")}
    \cup {StatusRequest("assistant", c, st) : c \in {1, 2}, st \in {"Draft", "Completed", "Bogus"}}
    \cup {StatusRequest("assistant", BadId, "Draft"), StatusRequest(NoHeader, 1, "Draft")}

CaseNext ==
    \E p \in Procs :
        \/ Issued < MaxCaseReq /\ \E r \in CaseRequests : create_client(p, r)
        \/ Issued < MaxCaseReq /\ \E r \in CaseRequests : create_case(p, r)
        \/ Issued < MaxCaseReq /\ \E r \in CaseRequests : update_case_status(p, r)
        \/ create_client_audit(p)
        \/ create_case_insert(p)
        \/ create_case_audit(p)
        \/ update_case_status_audit(p)

\* Concurrent client and case requests only.
CaseSpec == Init /\ [][CaseNext]_vars

\* ---------------------------------------------------------- POST /documents
\* The handler returns a body besides the id.
RespondBody(p, r, since, code, id, body) ==
    /\ responses' = Append(responses,
                           [req |-> r, code |-> code, id |-> id, started |-> since,
                            body |-> body])
    /\ pc' = [pc EXCEPT ![p] = "idle"]
    /\ req' = [req EXCEPT ![p] = NoReq]
    /\ new_id' = [new_id EXCEPT ![p] = EmptyId]
    /\ started' = [started EXCEPT ![p] = 0]

\* A request: [op |-> "create_document", x_role, payload |-> Document].
DocumentRequest(x_role, case_id) ==
    [op |-> "create_document", x_role |-> x_role,
     payload |-> [case_id |-> case_id, name |-> "upload"]]

\* Lines 177-179: the role check, then new_id = create_document("document", payload).
create_document_record(p, r) ==
    /\ Arrives(p)
    /\ r.op = "create_document"
    /\ IF ~require_role(r.x_role, Staff)
         THEN /\ Respond(p, r, Len(responses), 403, EmptyId)
              /\ UNCHANGED <<db_document, nextId, now>>
         ELSE /\ db_document' = create_document(db_document, r.payload, nextId, now)
              /\ nextId' = nextId + 1
              /\ Tick
              /\ Goto(p, r, "document_audit", nextId)
    /\ UNCHANGED <<db_client, db_case, db_appointment, db_auditlog, db_payment,
                   sessions, STRIPE_SECRET, locals>>

create_document_record_audit_replaces(p) ==
    /\ pc[p] = "document_audit"
    /\ db_auditlog' =
         <<AuditLog("assistant", "create", "document", new_id[p], NoDetails)
             @@ [created_at |-> now]>>
    /\ Tick
    /\ Respond(p, req[p], started[p], 200, new_id[p])
    /\ UNCHANGED <<db_client, db_case, db_appointment, db_document, db_payment,
                   nextId, sessions, STRIPE_SECRET, locals>>

\* Lines 180-181: the audit record, then the response.
create_document_record_audit(p) ==
    /\ pc[p] = "document_audit"
    /\ audit(AuditLog("assistant", "create", "document", new_id[p], NoDetails))
    /\ Respond(p, req[p], started[p], 200, new_id[p])
    /\ UNCHANGED <<db_client, db_case, db_appointment, db_document, db_payment,
                   nextId, sessions, STRIPE_SECRET, locals>>

\* ---------------------------------------------------- POST /templates/render
\* DEFAULT_TEMPLATES: key -> name.
DEFAULT_TEMPLATES ==
    [power_of_attorney |-> "Power of Attorney", affidavit |-> "Affidavit"]

\* A request: [op |-> "render", x_role, template_key, case_id].
RenderRequest(x_role, template_key, case_id) ==
    [op |-> "render", x_role |-> x_role, template_key |-> template_key,
     case_id |-> case_id]

NoClient == [none |-> TRUE]

\* find_one({"_id": id}) on a collection where the id is stored.
find_one(coll, id) == CHOOSE c \in coll : c._id = id

\* subst(tpl["content"], vars): the text is represented by the values put
\* into its placeholders.
subst(template_key, case, client) ==
    [template |-> template_key,
     client_first_name |-> IF client = NoClient THEN "" ELSE client.first_name]

\* Lines 211-218: the role check, the template lookup, then the case lookup.
render_template(p, r) ==
    /\ Arrives(p)
    /\ r.op = "render"
    /\ IF ~require_role(r.x_role, Staff)
         THEN Respond(p, r, Len(responses), 403, EmptyId) /\ UNCHANGED locals
         ELSE IF r.template_key \notin DOMAIN DEFAULT_TEMPLATES
                THEN Respond(p, r, Len(responses), 404, EmptyId) /\ UNCHANGED locals
                ELSE IF ~oid_ok(r.case_id)
                       THEN Respond(p, r, Len(responses), 400, EmptyId) /\ UNCHANGED locals
                       ELSE IF ~matched(r.case_id)
                              THEN /\ Respond(p, r, Len(responses), 404, EmptyId)
                                   /\ UNCHANGED locals
                              ELSE /\ Goto(p, r, "render_client", EmptyId)
                                   /\ locals' = [locals EXCEPT ![p] =
                                                   [case |-> find_one(db_case, r.case_id)]]
    /\ UNCHANGED <<store, nextId, now, sessions, STRIPE_SECRET>>

\* Line 219: the client lookup when the case names a client.
render_template_client(p) ==
    /\ pc[p] = "render_client"
    /\ locals' = [locals EXCEPT ![p] =
                    [case |-> locals[p].case,
                     client |-> IF locals[p].case.client_id # EmptyId
                                    /\ client_found(locals[p].case.client_id)
                                  THEN find_one(db_client, locals[p].case.client_id)
                                  ELSE NoClient]]
    /\ Goto(p, req[p], "render_insert", EmptyId)
    /\ UNCHANGED <<store, nextId, now, sessions, STRIPE_SECRET>>

\* Lines 221-235: the substitution, doc_id = create_document("document", ...),
\* then the response.
render_template_insert(p) ==
    /\ pc[p] = "render_insert"
    /\ db_document' =
         create_document(db_document,
                         [case_id |-> req[p].case_id,
                          name |-> DEFAULT_TEMPLATES[req[p].template_key],
                          template_key |-> req[p].template_key,
                          content |-> subst(req[p].template_key, locals[p].case,
                                            locals[p].client)],
                         nextId, now)
    /\ nextId' = nextId + 1
    /\ Tick
    /\ Respond(p, req[p], started[p], 200, nextId)
    /\ locals' = [locals EXCEPT ![p] = NoLocals]
    /\ UNCHANGED <<db_client, db_case, db_appointment, db_auditlog, db_payment,
                   sessions, STRIPE_SECRET>>

\* ---------------------------------------------------- POST /payments/checkout
\* schemas.Payment.amount_cents: ge=50.
PaymentMin == 50

\* Lines 239-246: the gateway key is read from the environment at import.
load_stripe ==
    /\ STRIPE_SECRET = "unread"
    /\ STRIPE_SECRET' \in {"set", "unset"}
    /\ UNCHANGED <<store, nextId, now, pc, req, new_id, started, responses,
                   sessions, locals>>

\* A request: [op |-> "checkout", payload |-> CheckoutRequest].
CheckoutRequest(amount_cents) ==
    [op |-> "checkout", payload |-> [service |-> "notary", amount_cents |-> amount_cents]]

\* Lines 258-279: the configuration check, then stripe.checkout.Session.create,
\* which creates a session at the gateway or raises.
create_checkout_session(p, r) ==
    /\ Arrives(p)
    /\ r.op = "checkout"
    /\ STRIPE_SECRET # "unread"
    /\ IF STRIPE_SECRET = "unset"
         THEN /\ Respond(p, r, Len(responses), 503, EmptyId)
              /\ UNCHANGED <<sessions, locals>>
         ELSE \/ /\ Respond(p, r, Len(responses), 500, EmptyId)
                 /\ UNCHANGED <<sessions, locals>>
              \/ /\ sessions' = sessions \cup
                       {[id |-> Cardinality(sessions) + 1,
                         unit_amount |-> r.payload.amount_cents]}
                 /\ locals' = [locals EXCEPT ![p] =
                                 [session |-> Cardinality(sessions) + 1]]
                 /\ Goto(p, r, "checkout_insert", EmptyId)
    /\ UNCHANGED <<store, nextId, now, STRIPE_SECRET>>

\* Payment(...) validates amount_cents >= 50.
payment_valid(payload) == payload.amount_cents >= PaymentMin

\* Lines 280-283: Payment(...) is built and validated, then
\* pay_id = create_document("payment", ...); an exception becomes HTTP 500.
create_checkout_session_insert(p) ==
    /\ pc[p] = "checkout_insert"
    /\ IF ~payment_valid(req[p].payload)
         THEN /\ Respond(p, req[p], started[p], 500, EmptyId)
              /\ UNCHANGED <<db_payment, nextId, now>>
         ELSE /\ db_payment' =
                   create_document(db_payment,
                                   [service |-> req[p].payload.service,
                                    amount_cents |-> req[p].payload.amount_cents,
                                    status |-> "pending",
                                    stripe_session_id |-> locals[p].session],
                                   nextId, now)
              /\ nextId' = nextId + 1
              /\ Tick
              /\ Respond(p, req[p], started[p], 200, nextId)
    /\ locals' = [locals EXCEPT ![p] = NoLocals]
    /\ UNCHANGED <<db_client, db_case, db_appointment, db_auditlog, db_document,
                   sessions, STRIPE_SECRET>>

\* ---------------------------------------------------------- GET /appointments
\* A day is a block of DayLen consecutive instants: day d starts at d * DayLen
\* and the next day starts timedelta(days=1) later.
DayLen == 2
Days == 0..(MaxTime \div DayLen)
\* The day parameter left out (or empty), and one strptime cannot parse.
NoDay == -1
BadDay == -2

\* A request: [op |-> "list_appointments", x_role, day].
ListRequest(x_role, day) == [op |-> "list_appointments", x_role |-> x_role, day |-> day]

\* datetime.strptime(day, "%Y-%m-%d"): the first instant of the day.
strptime(day) == day * DayLen

\* filt: {"start_time": {"$gte": start, "$lt": end}}, or {} without a day.
DayFilter(a, day) ==
    day # NoDay => /\ a.start_time >= strptime(day)
                   /\ a.start_time < strptime(day) + DayLen

sorted_by_start_time_descending(S) ==
    {f \in [1..Cardinality(S) -> S] :
        /\ \A k, l \in 1..Cardinality(S) : k # l => f[k] # f[l]
        /\ \A k \in 1..(Cardinality(S) - 1) : f[k].start_time >= f[k + 1].start_time}

\* find(filt).sort("start_time", 1): every ascending order of the matching
\* records (records with equal start_time come in either order).
sorted_by_start_time(S) ==
    {f \in [1..Cardinality(S) -> S] :
        /\ \A k, l \in 1..Cardinality(S) : k # l => f[k] # f[l]
        /\ \A k \in 1..(Cardinality(S) - 1) : f[k].start_time <= f[k + 1].start_time}

\* Lines 159-174, in one store query.
list_appointments(p, r) ==
    /\ Arrives(p)
    /\ r.op = "list_appointments"
    /\ IF ~require_role(r.x_role, Staff)
         THEN RespondBody(p, r, Len(responses), 403, EmptyId, <<>>)
         ELSE IF r.day = BadDay
                THEN RespondBody(p, r, Len(responses), 400, EmptyId, <<>>)
                ELSE \E items \in sorted_by_start_time(
                                    {a \in db_appointment : DayFilter(a, r.day)}) :
                        RespondBody(p, r, Len(responses), 200, EmptyId, items)
    /\ UNCHANGED <<store, nextId, now, sessions, STRIPE_SECRET, locals>>

\* ------------------------------------------------------------ GET /dashboard
\* A request: [op |-> "dashboard", x_role, today]; today is the day the
\* server's clock shows.
DashboardRequest(x_role, today) == [op |-> "dashboard", x_role |-> x_role, today |-> today]

\* Line 295: {"status": {"$in": ["New", "Draft", "Waiting Signature"]}}.
OpenStatuses == {"New", "Draft", "Waiting Signature"}

\* Line 297: limit(10).
RecentLimit == 10

\* find({}).sort("created_at", -1).limit(10) on the audit log, whose
\* created_at values increase with the position.
recent_activity(log) ==
    [k \in 1..(IF Len(log) < RecentLimit THEN Len(log) ELSE RecentLimit) |->
        log[Len(log) - k + 1]]

\* Lines 287-294: the role check, then the count of today's appointments.
dashboard(p, r) ==
    /\ Arrives(p)
    /\ r.op = "dashboard"
    /\ IF ~require_role(r.x_role, Staff)
         THEN Respond(p, r, Len(responses), 403, EmptyId) /\ UNCHANGED locals
         ELSE /\ Goto(p, r, "dashboard_open", EmptyId)
              /\ locals' = [locals EXCEPT ![p] =
                              [appts_today |->
                                 Cardinality({a \in db_appointment :
                                                DayFilter(a, r.today)})]]
    /\ UNCHANGED <<store, nextId, now, sessions, STRIPE_SECRET>>

\* Line 295: the count of open cases.
dashboard_open(p) ==
    /\ pc[p] = "dashboard_open"
    /\ locals' = [locals EXCEPT ![p] =
                    [appts_today |-> locals[p].appts_today,
                     open_cases |->
                        Cardinality({c \in db_case : c.status \in OpenStatuses})]]
    /\ Goto(p, req[p], "dashboard_completed", EmptyId)
    /\ UNCHANGED <<store, nextId, now, sessions, STRIPE_SECRET>>

\* Line 296: the count of completed cases.
dashboard_completed(p) ==
    /\ pc[p] = "dashboard_completed"
    /\ locals' = [locals EXCEPT ![p] =
                    [appts_today |-> locals[p].appts_today,
                     open_cases |-> locals[p].open_cases,
                     completed |->
                        Cardinality({c \in db_case : c.status = "Completed"})]]
    /\ Goto(p, req[p], "dashboard_recent", EmptyId)
    /\ UNCHANGED <<store, nextId, now, sessions, STRIPE_SECRET>>

\* Lines 297-307: the recent audit records, then the response.
dashboard_recent(p) ==
    /\ pc[p] = "dashboard_recent"
    /\ RespondBody(p, req[p], started[p], 200, EmptyId,
                   [kpis |-> [appointments_today |-> locals[p].appts_today,
                              open_cases |-> locals[p].open_cases,
                              completed_cases |-> locals[p].completed],
                    recent_activity |-> recent_activity(db_auditlog)])
    /\ locals' = [locals EXCEPT ![p] = NoLocals]
    /\ UNCHANGED <<store, nextId, now, sessions, STRIPE_SECRET>>

\* ------------------------------------------------- the store failing a write
\* create_document raises at line 117: the exception leaves the handler, the
\* caller gets HTTP 500 and nothing is undone.
create_case_audit_rolls_back(p) ==
    /\ pc[p] = "case_audit"
    /\ db_case' = {c \in db_case : c._id # new_id[p]}
    /\ Respond(p, req[p], started[p], 500, EmptyId)
    /\ UNCHANGED <<db_client, db_appointment, db_auditlog, nextId, now>>
    /\ UNCHANGED extras

create_case_audit_fails(p) ==
    /\ pc[p] = "case_audit"
    /\ Respond(p, req[p], started[p], 500, EmptyId)
    /\ UNCHANGED <<store, nextId, now, sessions, STRIPE_SECRET, locals>>

\* create_document raises at line 138, after update_one at line 135.
update_case_status_audit_fails(p) ==
    /\ pc[p] = "status_audit"
    /\ Respond(p, req[p], started[p], 500, EmptyId)
    /\ UNCHANGED <<store, nextId, now, sessions, STRIPE_SECRET, locals>>

\* ------------------------------------------------------------ specifications
MaxReq == 2
MaxListReq == 3

\* One request of every handler, with permitted and refused roles; the refused
\* ones also carry a payload that validation would reject.
Requests ==
    {ClientRequest("assistant"), ClientRequest(NoHeader),
     CaseRequest("notary", EmptyId, "New"), CaseRequest("assistant", EmptyId, "New"),
     CaseRequest("client", BadId, "New"),
     StatusRequest("assistant", 1, "Draft"), StatusRequest("client", 1, "Bogus"),
     StatusRequest(NoHeader, BadId, "Draft"),
     DocumentRequest("assistant", 1), DocumentRequest("client", 1),
     RenderRequest("notary", "affidavit", 1), RenderRequest("assistant", "missing", 1),
     RenderRequest(NoHeader, "missing", BadId),
     BookRequest(0, 1, "Scheduled"),
     ListRequest("assistant", NoDay),
     DashboardRequest("assistant", 0),
     CheckoutRequest(PaymentMin - 1), CheckoutRequest(PaymentMin)}

\* The whole application: every handler, MaxReq requests.
Next ==
    \/ load_stripe
    \/ Issued < MaxReq /\ \E p \in Procs, r \in Requests : create_client(p, r)
    \/ Issued < MaxReq /\ \E p \in Procs, r \in Requests : create_case(p, r)
    \/ Issued < MaxReq /\ \E p \in Procs, r \in Requests : update_case_status(p, r)
    \/ Issued < MaxReq /\ \E p \in Procs, r \in Requests : public_create_appointment(p, r)
    \/ Issued < MaxReq /\ \E p \in Procs, r \in Requests : create_document_record(p, r)
    \/ Issued < MaxReq /\ \E p \in Procs, r \in Requests : render_template(p, r)
    \/ Issued < MaxReq /\ \E p \in Procs, r \in Requests : create_checkout_session(p, r)
    \/ Issued < MaxReq /\ \E p \in Procs, r \in Requests : list_appointments(p, r)
    \/ Issued < MaxReq /\ \E p \in Procs, r \in Requests : dashboard(p, r)
    \/ \E p \in Procs : create_client_audit(p)
    \/ \E p \in Procs : create_case_insert(p)
    \/ \E p \in Procs : create_case_audit(p)
    \/ \E p \in Procs : update_case_status_audit(p)
    \/ \E p \in Procs : public_create_appointment_insert(p)
    \/ \E p \in Procs : public_create_appointment_audit(p)
    \/ \E p \in Procs : create_document_record_audit(p)
    \/ \E p \in Procs : render_template_client(p)
    \/ \E p \in Procs : render_template_insert(p)
    \/ \E p \in Procs : create_checkout_session_insert(p)
    \/ \E p \in Procs : dashboard_open(p)
    \/ \E p \in Procs : dashboard_completed(p)
    \/ \E p \in Procs : dashboard_recent(p)

Spec == Init /\ [][Next]_vars

\* The dashboard next to case creation and status updates.
DashRequests ==
    {CaseRequest("assistant", EmptyId, "New"),
     StatusRequest("assistant", 1, "Completed"),
     DashboardRequest("assistant", 0), DashboardRequest(NoHeader, 0)}

DashNext ==
    \/ Issued < MaxCaseReq /\ \E p \in Procs, r \in DashRequests : create_case(p, r)
    \/ Issued < MaxCaseReq /\ \E p \in Procs, r \in DashRequests : update_case_status(p, r)
    \/ Issued < MaxCaseReq /\ \E p \in Procs, r \in DashRequests : dashboard(p, r)
    \/ \E p \in Procs : create_case_insert(p)
    \/ \E p \in Procs : create_case_audit(p)
    \/ \E p \in Procs : update_case_status_audit(p)
    \/ \E p \in Procs : dashboard_open(p)
    \/ \E p \in Procs : dashboard_completed(p)
    \/ \E p \in Procs : dashboard_recent(p)

DashSpec == Init /\ [][DashNext]_vars

\* Bookings of one instant each, at every instant, and the listing by day.
ListRequests ==
    {BookRequest(t, t + 1, "Scheduled") : t \in Times}
      \cup {ListRequest("assistant", d) : d \in Days \cup {NoDay, BadDay}}
      \cup {ListRequest("client", 0)}

ListNext ==
    \/ Issued < MaxListReq /\ \E p \in Procs, r \in ListRequests : public_create_appointment(p, r)
    \/ Issued < MaxListReq /\ \E p \in Procs, r \in ListRequests : list_appointments(p, r)
    \/ \E p \in Procs : public_create_appointment_insert(p)
    \/ \E p \in Procs : public_create_appointment_audit(p)

ListSpec == Init /\ [][ListNext]_vars

\* Case creation and status updates with a store that may refuse the audit write.
FailRequests ==
    {CaseRequest("assistant", EmptyId, "New"),
     StatusRequest("assistant", 1, "Draft"), StatusRequest("assistant", 1, "Completed")}

FailNext ==
    \/ Issued < MaxCaseReq /\ \E p \in Procs, r \in FailRequests : create_case(p, r)
    \/ Issued < MaxCaseReq /\ \E p \in Procs, r \in FailRequests : update_case_status(p, r)
    \/ \E p \in Procs : create_case_insert(p)
    \/ \E p \in Procs : create_case_audit(p)
    \/ \E p \in Procs : create_case_audit_fails(p)
    \/ \E p \in Procs : update_case_status_audit(p)
    \/ \E p \in Procs : update_case_status_audit_fails(p)

FailSpec == Init /\ [][FailNext]_vars

\* One case taken through every status.
StatusRequests ==
    {CaseRequest("assistant", EmptyId, "New")}
      \cup {StatusRequest("assistant", 1, st) : st \in CaseStatus \cup {"Bogus"}}

StatusNext ==
    \/ Issued < MaxCaseReq /\ \E p \in Procs, r \in StatusRequests : create_case(p, r)
    \/ Issued < MaxCaseReq /\ \E p \in Procs, r \in StatusRequests : update_case_status(p, r)
    \/ \E p \in Procs : create_case_insert(p)
    \/ \E p \in Procs : create_case_audit(p)
    \/ \E p \in Procs : update_case_status_audit(p)

StatusSpec == Init /\ [][StatusNext]_vars

\* ================================================================ properties
\* Half-open intervals [start, end) overlap.
Overlap(x, y) == x.start_time < y.end_time /\ x.end_time > y.start_time

ValidRange(x) == x.end_time > x.start_time

Booked(i) == responses[i].req.op = "book"

\* Request j arrived after the response to request i was sent.
After(i, j) == responses[j].started >= i

\* Every stored appointment that overlaps booking i or j was created by one
\* of the two.
NoOtherOverlap(i, j) ==
    \A a \in db_appointment :
        (Overlap(a, responses[i].req.payload) \/ Overlap(a, responses[j].req.payload))
            => a._id \in {responses[i].id, responses[j].id} \ {EmptyId}

AuditsOf(action, entity, entity_id) ==
    {k \in DOMAIN db_auditlog :
        /\ db_auditlog[k].action = action
        /\ db_auditlog[k].entity = entity
        /\ db_auditlog[k].entity_id = entity_id}

\* A response is sent in this step; Sent is that response.
Served == Len(responses') = Len(responses) + 1
Sent == responses'[Len(responses')]

\* The step is a whole request, from arrival to response, and writes nothing.
RejectedUntouched == InFlight' = InFlight /\ UNCHANGED store

\* C1: in every reachable state no two stored appointments overlap
\* (A.start < B.end and A.end > B.start), whatever the interleaving of the
\* booking requests.
C1_NoDoubleBooking ==
    \A a, b \in db_appointment : a._id # b._id => ~Overlap(a, b)

\* C2: of two overlapping valid bookings issued one after the other into a
\* calendar with no other overlapping appointment, the first succeeds and
\* the second fails with 409; a booking that fails with 409 is served in
\* one step that leaves the store (appointments, audit log) unchanged.
C2_OverlappingOneWins ==
    /\ [](\A i, j \in DOMAIN responses :
            ( /\ i < j /\ After(i, j)
              /\ Booked(i) /\ Booked(j)
              /\ ValidRange(responses[i].req.payload)
              /\ ValidRange(responses[j].req.payload)
              /\ Overlap(responses[i].req.payload, responses[j].req.payload)
              /\ NoOtherOverlap(i, j) )
            => /\ responses[i].code = 200
               /\ responses[j].code = 409
               /\ responses[j].id = EmptyId)
    /\ [][(Served /\ Sent.req.op = "book" /\ Sent.code = 409)
            => RejectedUntouched]_vars

C2_Witness ==
    \E i, j \in DOMAIN responses :
        /\ i < j /\ After(i, j)
        /\ Booked(i) /\ Booked(j)
        /\ Overlap(responses[i].req.payload, responses[j].req.payload)
        /\ NoOtherOverlap(i, j)
        /\ responses[i].code = 200
        /\ responses[j].code = 409
        /\ Cardinality(db_appointment) = 1
        /\ Len(db_auditlog) = 1

\* C3: two valid bookings whose intervals only touch (A.end = B.start) and
\* that overlap no other appointment both succeed, in either order.
C3_TouchingBothSucceed ==
    \A i, j \in DOMAIN responses :
        ( /\ i # j
          /\ Booked(i) /\ Booked(j)
          /\ ValidRange(responses[i].req.payload)
          /\ ValidRange(responses[j].req.payload)
          /\ responses[i].req.payload.end_time = responses[j].req.payload.start_time
          /\ NoOtherOverlap(i, j) )
        => responses[i].code = 200 /\ responses[j].code = 200

C3_Witness ==
    \E i, j \in DOMAIN responses :
        /\ i < j
        /\ Booked(i) /\ Booked(j)
        /\ responses[j].req.payload.end_time = responses[i].req.payload.start_time
        /\ responses[i].code = 200 /\ responses[j].code = 200

\* C4: a valid booking is rejected with 409 only when a stored appointment
\* that is not Cancelled overlaps it.
C4_CancelledExcluded ==
    \A i \in DOMAIN responses :
        (Booked(i) /\ responses[i].code = 409)
            => \E a \in db_appointment :
                  a.status # "Cancelled" /\ Overlap(a, responses[i].req.payload)

\* The successful status updates of case c, and whether one is past its
\* store update and not yet answered.
OkUpdates(c) ==
    {i \in DOMAIN responses :
        /\ responses[i].req.op = "update_status"
        /\ responses[i].req.case_id = c
        /\ responses[i].code = 200}

Updating(c) ==
    \E p \in Procs : pc[p] = "status_audit" /\ req[p].case_id = c

Last(S) == CHOOSE i \in S : \A k \in S : k <= i

CaseIds == {c._id : c \in db_case}

\* C5: after a successful create_case (and before any status update of the
\* new case) the stored status of the new case is New, and exactly one
\* audit record (create, case, new id) exists.
C5_CreatedCaseIsNew ==
    \A i \in DOMAIN responses :
        (responses[i].req.op = "create_case" /\ responses[i].code = 200)
            => /\ \E c \in db_case : c._id = responses[i].id
               /\ \A c \in db_case :
                    ( /\ c._id = responses[i].id
                      /\ OkUpdates(c._id) = {}
                      /\ ~Updating(c._id) )
                    => c.status = "New"
               /\ Cardinality(AuditsOf("create", "case", responses[i].id)) = 1

\* C6 as stated: once no update of a case is in flight, its stored status
\* is the value of the successful update_status call that returned last,
\* and its update_status audit records are as many as the successful
\* calls, under every interleaving.
C6_LastCallWins ==
    \A c \in db_case :
        (OkUpdates(c._id) # {} /\ ~Updating(c._id))
            => /\ c.status = responses[Last(OkUpdates(c._id))].req.status
               /\ Cardinality(AuditsOf("update_status", "case", c._id))
                    = Cardinality(OkUpdates(c._id))

\* C6 as amended: under every interleaving the update_status audit records
\* of a case are as many as the successful calls; once no update of the
\* case is in flight, its stored status is the value of the successful call
\* that returned last, provided that call arrived after every other
\* successful call on the case had returned.
C6_LastSequentialCallWins ==
    \A c \in db_case :
        /\ Cardinality(AuditsOf("update_status", "case", c._id))
             = Cardinality(OkUpdates(c._id))
        /\ ( /\ OkUpdates(c._id) # {}
             /\ ~Updating(c._id)
             /\ \A i \in OkUpdates(c._id) \ {Last(OkUpdates(c._id))} :
                    After(i, Last(OkUpdates(c._id))) )
           => c.status = responses[Last(OkUpdates(c._id))].req.status

C6_Witness ==
    \E c \in db_case :
        \E i, j \in OkUpdates(c._id) :
            /\ i < j /\ After(i, j)
            /\ j = Last(OkUpdates(c._id))
            /\ responses[i].req.status # responses[j].req.status
            /\ ~Updating(c._id)
            /\ c.status = responses[j].req.status
            /\ Cardinality(AuditsOf("update_status", "case", c._id)) = 2

\* C7: update_status by a permitted role with a status outside the enum is
\* answered 400 in one step that leaves every record and the audit log
\* unchanged.
C7_InvalidStatusRejected ==
    [][( /\ Served
         /\ Sent.req.op = "update_status"
         /\ get_role(Sent.req.x_role) \in {"notary", "assistant"}
         /\ Sent.req.status \notin CaseStatus )
        => Sent.code = 400 /\ RejectedUntouched]_vars

C7_Witness ==
    \E i \in DOMAIN responses :
        /\ responses[i].req.op = "update_status"
        /\ responses[i].req.status \notin CaseStatus
        /\ responses[i].req.case_id \in CaseIds
        /\ responses[i].code = 400

\* C8: create_case by a permitted role with a client_id that is an id of no
\* stored Client is answered 404 in one step that leaves every record and
\* the audit log unchanged.
C8_UnknownClientRejected ==
    [][( /\ Served
         /\ Sent.req.op = "create_case"
         /\ get_role(Sent.req.x_role) \in {"notary", "assistant"}
         /\ Sent.req.payload.client_id >= 1
         /\ \A c \in db_client : c._id # Sent.req.payload.client_id )
        => Sent.code = 404 /\ RejectedUntouched]_vars

C8_Witness ==
    \E i \in DOMAIN responses :
        /\ responses[i].req.op = "create_case"
        /\ responses[i].req.payload.client_id >= 1
        /\ responses[i].req.payload.client_id \notin {c._id : c \in db_client}
        /\ responses[i].code = 404
        /\ db_case # {}

\* C9: a booking with end_time <= start_time is answered 400, never 409,
\* in one step that leaves the appointments and the audit log unchanged,
\* also when the conflict query would match a stored appointment.
C9_InvalidRangeRejected ==
    [][( /\ Served
         /\ Sent.req.op = "book"
         /\ Sent.req.payload.end_time <= Sent.req.payload.start_time )
        => Sent.code = 400 /\ RejectedUntouched]_vars

C9_Witness ==
    \E i \in DOMAIN responses :
        /\ Booked(i)
        /\ responses[i].req.payload.end_time < responses[i].req.payload.start_time
        /\ \E a \in db_appointment :
              /\ a.created_at < now
              /\ Overlap(a, responses[i].req.payload)
              /\ \E k \in DOMAIN responses : k < i /\ responses[k].id = a._id
        /\ responses[i].code = 400

\* C10: the appointment persisted by a successful booking has status
\* Scheduled, and exactly one audit record (client, book, appointment, new
\* id) exists.
C10_BookedIsScheduled ==
    \A i \in DOMAIN responses :
        (Booked(i) /\ responses[i].code = 200)
            => /\ \E a \in db_appointment :
                    a._id = responses[i].id /\ a.status = "Scheduled"
               /\ Cardinality({k \in AuditsOf("book", "appointment", responses[i].id) :
                                  db_auditlog[k].actor_role = "client"}) = 1

\* The operations that create or change a record of the store.
Mutating ==
    {"create_client", "create_case", "update_status", "book", "create_document",
     "render", "checkout"}

\* The requests answered 200 so far by a mutating operation.
Mutations == {i \in 1..Len(responses) :
                 responses[i].req.op \in Mutating /\ responses[i].code = 200}

\* C11: once no request is in flight, the audit log holds exactly one record
\* per successful mutation: its length is the number of mutating requests
\* answered 200 (no store write fails in this specification).
C11_OneAuditPerMutation ==
    InFlight = {} => Len(db_auditlog) = Cardinality(Mutations)

\* C12: the audit record of every successful create_case names as
\* actor_role the role of the caller that made the request.
C12_CreateCaseAuditActor ==
    \A i \in DOMAIN responses :
        (responses[i].req.op = "create_case" /\ responses[i].code = 200)
            => \A k \in AuditsOf("create", "case", responses[i].id) :
                   db_auditlog[k].actor_role = get_role(responses[i].req.x_role)

\* C13: every summary answered 200 reports open_cases + completed_cases at
\* most the number of Case records stored when it returns, whatever case
\* creations and status updates ran between its count queries.
C13_SummaryCountsBounded ==
    [][( /\ Served
         /\ Sent.req.op = "dashboard"
         /\ Sent.code = 200 )
        => Sent.body.kpis.open_cases + Sent.body.kpis.completed_cases
             <= Cardinality(db_case')]_vars

\* The appointments of a listing, as a set.
Listed(items) == {items[k] : k \in DOMAIN items}

\* C14: list_appointments by a permitted role with a well-formed day is
\* answered 200 with exactly the stored appointments whose start_time is at
\* or after the first instant of the day and before the first instant of the
\* next day, each once, in ascending order of start_time.
C14_ListByDay ==
    [][( /\ Served
         /\ Sent.req.op = "list_appointments"
         /\ get_role(Sent.req.x_role) \in {"notary", "assistant"}
         /\ Sent.req.day \in Days )
        => /\ Sent.code = 200
           /\ Listed(Sent.body) =
                {a \in db_appointment :
                    /\ Sent.req.day * DayLen <= a.start_time
                    /\ a.start_time < (Sent.req.day + 1) * DayLen}
           /\ Len(Sent.body) = Cardinality(Listed(Sent.body))
           /\ \A k, l \in DOMAIN Sent.body :
                 k < l => Sent.body[k].start_time <= Sent.body[l].start_time]_vars

\* A listing by day that returned one stored appointment and left out another.
C14_Witness ==
    \E i \in DOMAIN responses :
        /\ responses[i].req.op = "list_appointments"
        /\ responses[i].code = 200
        /\ responses[i].req.day \in Days
        /\ Len(responses[i].body) >= 1
        /\ \E a \in db_appointment :
              /\ a.created_at < responses[i].body[1].created_at
              /\ a \notin Listed(responses[i].body)

\* C15: no step removes or changes an audit record: every record of the log
\* is at the same position, unchanged, after the step, and the log is no
\* shorter.
C15_AuditAppendOnly ==
    [][ /\ Len(db_auditlog') >= Len(db_auditlog)
        /\ \A k \in DOMAIN db_auditlog : db_auditlog'[k] = db_auditlog[k] ]_vars

\* Two mutations of different operations were audited, the first record
\* still in place after the second was written.
C15_Witness ==
    /\ Len(db_auditlog) = 2
    /\ db_auditlog[1].entity # db_auditlog[2].entity
    /\ db_auditlog[1].created_at < db_auditlog[2].created_at

\* C16: when the audit write of create_case or update_case_status fails
\* after the case write, the caller is answered 500 and the step changes no
\* record: the created case is still stored, the case updated is still
\* stored with a status of the enum, no audit record is appended, and a
\* created case has no audit record.
C16_AuditFailureKeepsMutation ==
    [][\A p \in Procs :
          ( /\ pc[p] \in {"case_audit", "status_audit"}
            /\ pc'[p] = "idle"
            /\ Len(db_auditlog') = Len(db_auditlog) )
          => /\ Served
             /\ Sent.req = req[p]
             /\ Sent.code = 500
             /\ db_case' = db_case
             /\ pc[p] = "case_audit"
                  => /\ \E c \in db_case' : c._id = new_id[p]
                     /\ AuditsOf("create", "case", new_id[p]) = {}
             /\ pc[p] = "status_audit"
                  => \E c \in db_case' :
                        /\ c._id = req[p].case_id
                        /\ c.status \in CaseStatus
                        /\ c.updated_at > c.created_at ]_vars

\* The audit write of an update failed and the status it had written is the
\* stored one, with no update_status audit record in the log.
C16_Witness ==
    \E i \in DOMAIN responses :
        /\ responses[i].req.op = "update_status"
        /\ responses[i].code = 500
        /\ \E c \in db_case :
              /\ c._id = responses[i].req.case_id
              /\ c.status = responses[i].req.status
        /\ AuditsOf("update_status", "case", responses[i].req.case_id) = {}

\* C17: the stored status of every case is one of the five enum values in
\* every reachable state, and update_case_status by a permitted role with
\* any of the five values on a stored case, whatever its current status, is
\* never refused: the update step stores the requested status and the
\* request is answered 200.
C17_StatusGraphConnected ==
    /\ [](\A c \in db_case :
             c.status \in {"New", "Draft", "Waiting Signature", "Completed", "Archived"})
    /\ [][ /\ ( /\ Served
                /\ Sent.req.op = "update_status"
                /\ get_role(Sent.req.x_role) \in {"notary", "assistant"}
                /\ Sent.req.status \in {"New", "Draft", "Waiting Signature",
                                        "Completed", "Archived"}
                /\ \E c \in db_case : c._id = Sent.req.case_id )
              => Sent.code = 200
           /\ \A p \in Procs :
                 (pc[p] = "idle" /\ pc'[p] = "status_audit")
                    => \E c \in db_case' :
                          /\ c._id = req'[p].case_id
                          /\ c.status = req'[p].status ]_vars

\* A case was set to Archived and then, by a call that arrived after the
\* first had returned, back to New, which is its stored status.
C17_Witness ==
    \E i, j \in DOMAIN responses :
        /\ responses[i].req.op = "update_status" /\ responses[i].code = 200
        /\ responses[j].req.op = "update_status" /\ responses[j].code = 200
        /\ responses[i].req.case_id = responses[j].req.case_id
        /\ responses[i].req.status = "Archived"
        /\ responses[j].req.status = "New"
        /\ After(i, j)
        /\ \E c \in db_case : c._id = responses[j].req.case_id /\ c.status = "New"

\* The operations behind the role check that write to the store.
Gated == {"create_client", "create_case", "update_status", "create_document", "render"}

\* C18: a create_client, create_case, update_case_status,
\* create_document_record or render_template request whose X-Role header is
\* absent or is not notary or assistant is answered 403 in one step that
\* leaves every record and the audit log unchanged, whatever else is wrong
\* with the request.
C18_WrongRoleForbidden ==
    [][( /\ Served
         /\ Sent.req.op \in Gated
         /\ Sent.req.x_role \notin {"notary", "assistant"} )
        => Sent.code = 403 /\ RejectedUntouched]_vars

\* A request without the header that also names a malformed case id and an
\* unknown template was answered 403, next to a mutation that succeeded.
C18_Witness ==
    \E i, j \in DOMAIN responses :
        /\ responses[i].req.op = "render"
        /\ responses[i].req.x_role = NoHeader
        /\ ~oid_ok(responses[i].req.case_id)
        /\ responses[i].code = 403
        /\ responses[j].code = 200
        /\ db_auditlog # <<>>

\* C19: update_case_status by a permitted role on a well-formed id that
\* matches no stored case is answered 404 when the status is one of the
\* enum and 400 when it is not, in one step that creates no case and
\* appends no audit record.
C19_MissingCaseNotFound ==
    [][( /\ Served
         /\ Sent.req.op = "update_status"
         /\ get_role(Sent.req.x_role) \in {"notary", "assistant"}
         /\ Sent.req.case_id >= 1
         /\ \A c \in db_case : c._id # Sent.req.case_id )
        => /\ Sent.code = IF Sent.req.status \in CaseStatus THEN 404 ELSE 400
           /\ RejectedUntouched
           /\ db_case' = db_case
           /\ db_auditlog' = db_auditlog]_vars

\* An update with a valid status on a missing case was answered 404 while
\* another case is stored, and no update_status audit record exists for
\* the missing id.
C19_Witness ==
    \E i \in DOMAIN responses :
        /\ responses[i].req.op = "update_status"
        /\ responses[i].req.status \in CaseStatus
        /\ responses[i].code = 404
        /\ db_case # {}
        /\ \A c \in db_case : c._id # responses[i].req.case_id
        /\ AuditsOf("update_status", "case", responses[i].req.case_id) = {}

\* C20: every session created at the gateway has a Payment record with
\* status pending carrying its id, or belongs to a request still on its way
\* to storing one, and every stored Payment has amount_cents of at least 50.
C20_SessionHasPayment ==
    /\ \A s \in sessions :
          \/ \E pay \in db_payment :
                pay.stripe_session_id = s.id /\ pay.status = "pending"
          \/ \E p \in Procs :
                pc[p] = "checkout_insert" /\ locals[p].session = s.id
    /\ \A pay \in db_payment : pay.amount_cents >= 50

====
